---- MODULE Spec2Model ----
(***************************************************************************)
(* Model of the agent core of the provider-network dashboard:              *)
(*   agents/orchestrator.py  AgentOrchestrator (intent classification and *)
(*                           routing)                                      *)
(*   agents/base_agents.py   BaseAgent (the LLM gateway: call_llm and      *)
(*                           _clean_llm_response)                          *)
(*   agents/network_analyzer_agent.py, agents/cost_optimzer_agent.py,      *)
(*   agents/report_generator_agent.py  the three agents' process_request   *)
(* Python strings are modelled as sequences of one-character strings, so   *)
(* that lower-casing, substring tests, splitting, stripping and slicing    *)
(* are computed character by character as the interpreter computes them.   *)
(***************************************************************************)
EXTENDS Integers, Sequences, FiniteSets, TLC

VARIABLES
    user_query,     \* route_request: the query of the current call
    context,        \* route_request: the context snapshot of the current call
    intent,         \* route_request: the value returned by _classify_intent
    earlier,        \* history: <<>> or one earlier completed call of
                    \* route_request
    rpc,            \* route_request: position of the router
    gpc,            \* call_llm: position of the gateway call
    response,       \* call_llm: what requests.post returned (line 91)
    exc,            \* call_llm: <<>> or the exception in flight
    generated_text, \* call_llm: the value extracted at line 95
    cleaned_response, \* _clean_llm_response: its local at line 123
    llm_result,     \* call_llm: the string it returned
    llm_raised,     \* call_llm: an exception left call_llm
    timeouts,       \* history: consecutive calls whose transport timed out
    apc,            \* process_request: position of the agent
    cur_agent,      \* process_request: the agent whose method runs
    request,        \* process_request: its argument
    strategy,       \* process_request: the method its if/elif chain selects
    formatted,      \* strategy: <<>> or the data it formatted its context from
    a_exc,          \* process_request: <<>> or the exception in flight
    llm_text,       \* strategy: the text call_llm returned
    llm_calls,      \* history: calls of call_llm by this process_request
    agent_result,   \* process_request: <<>> or the dict it returned
    agent_raised,   \* process_request: an exception left process_request
    route_result,   \* route_request: <<>> or the dict it returned
    route_raised,   \* route_request: <<>> or the exception that left it
    invoked,        \* history: the calls route_request made, in order
    log_at_entry,   \* history: the conversation log when route_request began
    lpc,            \* add_to_conversation: its position
    conversation_history, \* AgentOrchestrator.conversation_history
    add_args,       \* add_to_conversation: <<>> or its arguments
    add_raised,     \* add_to_conversation: <<>> or the exception that left it
    submitted,      \* history: the queries add_to_conversation was called with
    attempts,       \* history: calls of requests.post by this call_llm
    epc,            \* BaseAgent.__init__: its position
    model_arg,      \* BaseAgent.__init__: <<>> (None) or the model_endpoint given
    endpoints,      \* _find_best_model_endpoint: the names list() returned
    list_failed,    \* _find_best_model_endpoint: list() raised
    model_endpoint, \* BaseAgent.model_endpoint: <<>> or its value
    probes,         \* history: calls of serving_endpoints.list()
    cpc,            \* concurrent add_to_conversation: each caller's position
    cargs           \* concurrent add_to_conversation: each caller's query

rvars == <<user_query, context, intent, earlier, rpc>>
gvars == <<gpc, response, exc, generated_text, cleaned_response, llm_result,
           llm_raised, timeouts, attempts>>
avars == <<apc, cur_agent, request, strategy, formatted, a_exc, llm_text,
           llm_calls, agent_result, agent_raised>>
ovars == <<route_result, route_raised, invoked, log_at_entry>>
lvars == <<lpc, conversation_history, add_args, add_raised, submitted>>
evars == <<epc, model_arg, endpoints, list_failed, model_endpoint, probes>>
cvars == <<cpc, cargs>>
vars == <<rvars, gvars, avars, ovars, lvars, evars, cvars>>

None == "None"

(***************************************************************************)
(* Python string primitives.                                               *)
(***************************************************************************)

\* str.lower() on one character (ASCII letters).
UpperToLower ==
    ("A" :> "a") @@ ("B" :> "b") @@ ("C" :> "c") @@ ("D" :> "d") @@
    ("E" :> "e") @@ ("F" :> "f") @@ ("G" :> "g") @@ ("H" :> "h") @@
    ("I" :> "i") @@ ("J" :> "j") @@ ("K" :> "k") @@ ("L" :> "l") @@
    ("M" :> "m") @@ ("N" :> "n") @@ ("O" :> "o") @@ ("P" :> "p") @@
    ("Q" :> "q") @@ ("R" :> "r") @@ ("S" :> "s") @@ ("T" :> "t") @@
    ("U" :> "u") @@ ("V" :> "v") @@ ("W" :> "w") @@ ("X" :> "x") @@
    ("Y" :> "y") @@ ("Z" :> "z")

UpperLetters == DOMAIN UpperToLower

LowerChar(c) ==
    IF c \in UpperLetters THEN UpperToLower[c] ELSE c

\* str.lower()
Lower(s) ==
    [i \in 1..Len(s) |-> LowerChar(s[i])]

IsLetter(c) ==
    \/ c \in UpperLetters
    \/ \E u \in UpperLetters : UpperToLower[u] = c

\* Variant of Contains: k matches only as a whole word of s.
Contains_WholeWord(s, k) ==
    \E i \in 1..(Len(s) - Len(k) + 1) :
        /\ \A j \in 1..Len(k) : s[i + j - 1] = k[j]
        /\ i > 1 => ~IsLetter(s[i - 1])
        /\ i + Len(k) <= Len(s) => ~IsLetter(s[i + Len(k)])

\* k in s  (substring containment)
Contains(s, k) ==
    \E i \in 1..(Len(s) - Len(k) + 1) :
        \A j \in 1..Len(k) : s[i + j - 1] = k[j]

\* any(k in s for k in keywords)
AnyIn(keywords, s) ==
    \E n \in 1..Len(keywords) : Contains(s, keywords[n])

(***************************************************************************)
(* AgentOrchestrator._classify_intent                                      *)
(***************************************************************************)

cost_keywords ==
    << <<"c", "o", "s", "t">>, <<"s", "a", "v", "e">>, <<"s", "a", "v", "i", "n", "g", "s">>, <<"e", "x", "p", "e", "n", "s", "i", "v", "e">>, <<"b", "u", "d", "g", "e", "t">>,
       <<"r", "e", "d", "u", "c", "e">>, <<"o", "p", "t", "i", "m", "i", "z", "e">>, <<"f", "i", "n", "a", "n", "c", "i", "a", "l">> >>

analysis_keywords ==
    << <<"a", "n", "a", "l", "y", "z", "e">>, <<"p", "e", "r", "f", "o", "r", "m", "a", "n", "c", "e">>, <<"q", "u", "a", "l", "i", "t", "y">>, <<"s", "c", "o", "r", "e">>, <<"c", "o", "m", "p", "a", "r", "e">>,
       <<"b", "e", "n", "c", "h", "m", "a", "r", "k">>, <<"t", "r", "e", "n", "d">> >>

report_keywords ==
    << <<"r", "e", "p", "o", "r", "t">>, <<"s", "u", "m", "m", "a", "r", "y">>, <<"d", "o", "c", "u", "m", "e", "n", "t">>, <<"g", "e", "n", "e", "r", "a", "t", "e">>, <<"d", "o", "w", "n", "l", "o", "a", "d">>,
       <<"p", "d", "f">>, <<"p", "r", "e", "s", "e", "n", "t", "a", "t", "i", "o", "n">> >>

complex_keywords ==
    << <<"c", "o", "m", "p", "r", "e", "h", "e", "n", "s", "i", "v", "e">>, <<"d", "e", "t", "a", "i", "l", "e", "d">>, <<"f", "u", "l", "l", " ", "a", "n", "a", "l", "y", "s", "i", "s">>, <<"c", "o", "m", "p", "l", "e", "t", "e">>,
       <<"e", "v", "e", "r", "y", "t", "h", "i", "n", "g">> >>

\* [k for k in keywords if k in query_lower]
KeywordsFound(keywords, query_lower) ==
    SelectSeq(keywords, LAMBDA k : Contains(query_lower, k))

\* Variant of DefaultIntent: no default agent.
DefaultIntent_General ==
    [ primary_agent    |-> "general",
      secondary_agents |-> <<>>,
      complexity       |-> "simple",
      keywords_found   |-> <<>> ]

\* lines 69-74
DefaultIntent ==
    [ primary_agent    |-> "network_analysis",
      secondary_agents |-> <<>>,
      complexity       |-> "simple",
      keywords_found   |-> <<>> ]

\* lines 78-80
ComplexIntent ==
    [ DefaultIntent EXCEPT
        !.complexity = "complex",
        !.primary_agent = "multi_agent",
        !.secondary_agents =
            <<"network_analysis", "cost_optimization", "report_generation">> ]

\* lines 84-85, 88-89, 92-93
AgentIntent(agent, keywords, query_lower) ==
    [ DefaultIntent EXCEPT
        !.primary_agent = agent,
        !.keywords_found = KeywordsFound(keywords, query_lower) ]

\* Variant of ClassifyWith: the cost keywords are tested before the
\* complexity keywords.
ClassifyWith_CostFirst(query_lower) ==
    IF AnyIn(cost_keywords, query_lower)
    THEN AgentIntent("cost_optimization", cost_keywords, query_lower)
    ELSE IF AnyIn(complex_keywords, query_lower)
    THEN ComplexIntent
    ELSE IF AnyIn(report_keywords, query_lower)
    THEN AgentIntent("report_generation", report_keywords, query_lower)
    ELSE IF AnyIn(analysis_keywords, query_lower)
    THEN AgentIntent("network_analysis", analysis_keywords, query_lower)
    ELSE DefaultIntent

\* Variant of ClassifyWith: the report keywords are tested before the cost
\* keywords.
ClassifyWith_ReportFirst(query_lower) ==
    IF AnyIn(complex_keywords, query_lower)
    THEN ComplexIntent
    ELSE IF AnyIn(report_keywords, query_lower)
    THEN AgentIntent("report_generation", report_keywords, query_lower)
    ELSE IF AnyIn(cost_keywords, query_lower)
    THEN AgentIntent("cost_optimization", cost_keywords, query_lower)
    ELSE IF AnyIn(analysis_keywords, query_lower)
    THEN AgentIntent("network_analysis", analysis_keywords, query_lower)
    ELSE DefaultIntent

\* Variant of ClassifyWith: the analysis keywords are tested before the
\* report keywords.
ClassifyWith_AnalysisFirst(query_lower) ==
    IF AnyIn(complex_keywords, query_lower)
    THEN ComplexIntent
    ELSE IF AnyIn(cost_keywords, query_lower)
    THEN AgentIntent("cost_optimization", cost_keywords, query_lower)
    ELSE IF AnyIn(analysis_keywords, query_lower)
    THEN AgentIntent("network_analysis", analysis_keywords, query_lower)
    ELSE IF AnyIn(report_keywords, query_lower)
    THEN AgentIntent("report_generation", report_keywords, query_lower)
    ELSE DefaultIntent

\* lines 76-95: the if/elif chain on query_lower
ClassifyWith(query_lower) ==
    IF AnyIn(complex_keywords, query_lower)
    THEN ComplexIntent
    ELSE IF AnyIn(cost_keywords, query_lower)
    THEN AgentIntent("cost_optimization", cost_keywords, query_lower)
    ELSE IF AnyIn(report_keywords, query_lower)
    THEN AgentIntent("report_generation", report_keywords, query_lower)
    ELSE IF AnyIn(analysis_keywords, query_lower)
    THEN AgentIntent("network_analysis", analysis_keywords, query_lower)
    ELSE DefaultIntent

\* Variant of _classify_intent: the query is not lower-cased.
_classify_intent_NoLower(query) ==
    ClassifyWith(query)

\* lines 52-95
_classify_intent(query) ==
    ClassifyWith(Lower(query))

(***************************************************************************)
(* Inputs: queries are concatenations of at most MaxFrags fragments.       *)
(***************************************************************************)

MaxFrags == 2

QueryFragments ==
    { <<"f", "o", "r", "e", "c", "a", "s", "t", " ", "t", "h", "e", " ", "n", "e", "x", "t", " ", "q", "u", "a", "r", "t", "e", "r">>,
      <<"c", "o", "s", "t">>, <<"C", "O", "S", "T">>, <<"R", "e", "p", "o", "r", "t">>, <<"a", "n", "a", "l", "y", "z", "e">>, <<"C", "O", "M", "P", "L", "E", "T", "E">>,
      <<"f", "u", "l", "l", " ">>, <<"a", "n", "a", "l", "y", "s", "i", "s">>, <<"s">>,
      <<"s", "a", "v", "e">>, <<"P", "r", "o", "v", "i", "d", "e", "r">>, <<"s", "u", "m", "m", "a", "r", "y">> }

RECURSIVE Concats(_, _)
Concats(frags, n) ==
    IF n = 0 THEN { <<>> }
    ELSE LET shorter == Concats(frags, n - 1)
         IN  shorter \cup { s \o f : s \in shorter, f \in frags }

Queries == Concats(QueryFragments, MaxFrags)

\* The queries that differ from q at most in letter case.
CaseVariants(q) ==
    LET query_lower == Lower(q)
    IN  { v \in Queries : Len(v) = Len(q) /\ Lower(v) = query_lower }

\* The context snapshots the dashboard builds: an empty one and one whose
\* numeric fields are numbers.
Contexts ==
    { [is_dict |-> TRUE, numbers |-> "absent"],
      [is_dict |-> TRUE, numbers |-> "number"] }

(***************************************************************************)
(* BaseAgent._clean_llm_response                                           *)
(***************************************************************************)

\* The characters str.strip() removes (the ASCII ones).
Whitespace == {" ", "\t", "\n", "\r"}

RECURSIVE SplitFrom(_, _)
SplitFrom(s, start) ==
    LET rest == { i \in start..Len(s) : s[i] = "\n" }
    IN  IF rest = {}
        THEN << SubSeq(s, start, Len(s)) >>
        ELSE LET i == CHOOSE i \in rest : \A j \in rest : i <= j
             IN  << SubSeq(s, start, i - 1) >> \o SplitFrom(s, i + 1)

\* s.split('\n')
Split(s) == SplitFrom(s, 1)

\* '\n'.join(lines)
RECURSIVE Join(_)
Join(lines) ==
    IF lines = <<>> THEN <<>>
    ELSE IF Len(lines) = 1 THEN lines[1]
    ELSE lines[1] \o <<"\n">> \o Join(Tail(lines))

\* s.strip(): the text from the first to the last character that is no
\* whitespace
Strip(s) ==
    IF \A i \in 1..Len(s) : s[i] \in Whitespace THEN <<>>
    ELSE LET lead  == CHOOSE k \in 0..(Len(s) - 1) :
                          /\ s[k + 1] \notin Whitespace
                          /\ \A j \in 1..k : s[j] \in Whitespace
             trail == CHOOSE k \in 0..(Len(s) - 1) :
                          /\ s[Len(s) - k] \notin Whitespace
                          /\ \A j \in 0..(k - 1) : s[Len(s) - j] \in Whitespace
         IN  SubSeq(s, lead + 1, Len(s) - trail)

skip_phrases ==
    << <<"h", "u", "m", "a", "n", ":">>, <<"a", "s", "s", "i", "s", "t", "a", "n", "t", ":">>, <<"u", "s", "e", "r", ":">>, <<"s", "y", "s", "t", "e", "m", ":">>, <<"r", "e", "s", "p", "o", "n", "s", "e", ":">> >>

\* Variant of SkipsLine: the line is tested as it is, not lower-cased.
SkipsLine_CaseSensitive(line) ==
    AnyIn(skip_phrases, line)

\* lines 118-120: any(skip_phrase in line.lower() for skip_phrase in [...])
SkipsLine(line) ==
    AnyIn(skip_phrases, Lower(line))

\* lines 114-121: the loop that fills cleaned_lines
RECURSIVE CleanLoop(_, _, _)
CleanLoop(lines, n, cleaned_lines) ==
    IF n > Len(lines) THEN cleaned_lines
    ELSE CleanLoop(lines, n + 1,
                   IF ~SkipsLine(lines[n])
                   THEN Append(cleaned_lines, lines[n])
                   ELSE cleaned_lines)

\* lines 113-123: cleaned_response before the length test
CleanedResponse(text) ==
    Strip(Join(CleanLoop(Split(text), 1, <<>>)))

MaxResponseLength == 2000

Ellipsis == <<".", ".", ".">>

\* Variant of Truncate: the length test is >= instead of >.
Truncate_AtLimit(cleaned) ==
    IF Len(cleaned) >= MaxResponseLength
    THEN SubSeq(cleaned, 1, MaxResponseLength) \o Ellipsis
    ELSE cleaned

\* Variant of Truncate: the ellipsis is appended to the whole text.
Truncate_AppendOnly(cleaned) ==
    IF Len(cleaned) > MaxResponseLength
    THEN cleaned \o Ellipsis
    ELSE cleaned

\* lines 126-127
Truncate(cleaned) ==
    IF Len(cleaned) > MaxResponseLength
    THEN SubSeq(cleaned, 1, MaxResponseLength) \o Ellipsis
    ELSE cleaned

\* lines 110-129
_clean_llm_response(text) ==
    Truncate(CleanedResponse(text))

(***************************************************************************)
(* BaseAgent.call_llm                                                      *)
(***************************************************************************)

TimeoutSentinel == <<"R", "e", "q", "u", "e", "s", "t", " ", "t", "i", "m", "e", "d", " ", "o", "u", "t", ".", " ", "P", "l", "e", "a", "s", "e", " ", "t", "r", "y", " ", "a", "g", "a", "i", "n", ".">>
ErrorPrefix     == <<"S", "o", "r", "r", "y", ",", " ", "I", " ", "e", "n", "c", "o", "u", "n", "t", "e", "r", "e", "d", " ", "a", "n", " ", "e", "r", "r", "o", "r", ":", " ">>
GenericSentinel == <<"A", "n", " ", "u", "n", "e", "x", "p", "e", "c", "t", "e", "d", " ", "e", "r", "r", "o", "r", " ", "o", "c", "c", "u", "r", "r", "e", "d", ".", " ", "P", "l", "e", "a", "s", "e", " ", "t", "r", "y", " ", "a", "g", "a", "i", "n", ".">>

\* The exception classes call_llm can meet, each with its base classes.
Bases ==
    [ ReadTimeout      |-> {"ReadTimeout", "Timeout", "RequestException", "Exception"},
      ConnectTimeout   |-> {"ConnectTimeout", "ConnectionError", "Timeout",
                            "RequestException", "Exception"},
      ConnectionError  |-> {"ConnectionError", "RequestException", "Exception"},
      HTTPError        |-> {"HTTPError", "RequestException", "Exception"},
      \* response.json() of requests >= 2.27
      JSONDecodeError  |-> {"JSONDecodeError", "RequestException", "ValueError",
                            "Exception"},
      \* response.json() of older requests
      ValueError       |-> {"ValueError", "Exception"},
      IndexError       |-> {"IndexError", "Exception"},
      AttributeError   |-> {"AttributeError", "Exception"},
      NameError        |-> {"NameError", "Exception"},
      TypeError        |-> {"TypeError", "Exception"} ]

\* Variant of Handlers: the RequestException clause comes first.
Handlers_RequestExceptionFirst ==
    << "RequestException", "Timeout", "Exception" >>

\* Variant of Handlers: no catch-all clause.
Handlers_NoCatchAll ==
    << "Timeout", "RequestException" >>

\* lines 100, 103, 106: the except clauses in their order
Handlers ==
    << "Timeout", "RequestException", "Exception" >>

\* The first except clause that matches an exception of class cls, 0 if none.
HandlerFor(cls) ==
    LET matching == { n \in DOMAIN Handlers : Handlers[n] \in Bases[cls] }
    IN  IF matching = {} THEN 0
        ELSE CHOOSE n \in matching : \A m \in matching : n <= m

\* lines 102, 105, 108: what the clause returns
HandlerResult(clause, e) ==
    IF clause = "Timeout" THEN TimeoutSentinel
    ELSE IF clause = "RequestException" THEN ErrorPrefix \o e.text
    ELSE GenericSentinel

(***************************************************************************)
(* Inputs of the gateway: the texts the endpoint generates are             *)
(* concatenations of at most MaxParts parts.                               *)
(***************************************************************************)

MaxParts == 2

\* A text of exactly MaxResponseLength characters.
FullBlock == [i \in 1..MaxResponseLength |-> "a"]

\* A quarter of it.
QuarterBlock == [i \in 1..(MaxResponseLength \div 4) |-> "b"]

TextParts ==
    { FullBlock, QuarterBlock, <<"x">>, <<" ">>, <<"\n">>,
      <<"H", "u", "m", "a", "n", ":", " ", "i", "g", "n", "o", "r", "e", "\n">>, <<"R", "e", "a", "l", " ", "a", "n", "s", "w", "e", "r", " ", "l", "i", "n", "e">>, <<"a", "s", " ", "t", "h", "e", " ", "U", "S", "E", "R", ":", " ", "s", "a", "i", "d">> }

Texts == Concats(TextParts, MaxParts)

\* The shapes of a JSON body (line 95).
JsonShapes ==
    { "generated_text",         \* {"predictions": [{"generated_text": text}]}
      "no_predictions",         \* {}
      "empty_predictions",      \* {"predictions": []}
      "no_generated_text",      \* {"predictions": [{}]}
      "prediction_not_dict",    \* {"predictions": ["text"]}
      "result_not_dict",        \* []
      "text_not_str" }          \* {"predictions": [{"generated_text": null}]}

\* The reason phrases of a 503 status line: the usual one and a long one.
Reasons == { <<"S", "e", "r", "v", "i", "c", "e", " ", "U", "n", "a", "v", "a", "i", "l", "a", "b", "l", "e">>, FullBlock }

\* The URL call_llm posts to (line 73).
Url == <<"h", "t", "t", "p", "s", ":", "/", "/", "y", "o", "u", "r", "-", "w", "o", "r", "k", "s", "p", "a", "c", "e", ".", "d", "a", "t", "a", "b", "r", "i", "c", "k", "s", ".", "c", "o", "m", "/", "s", "e", "r", "v", "i", "n", "g", "-", "e", "n", "d", "p", "o", "i", "n", "t", "s", "/", "d", "a", "t", "a", "b", "r", "i", "c", "k", "s", "-", "l", "l", "a", "m", "a", "-", "2", "-", "7", "b", "-", "c", "h", "a", "t", "/", "i", "n", "v", "o", "c", "a", "t", "i", "o", "n", "s">>

\* str(e) of the HTTPError that raise_for_status raises
HTTPErrorText(r) ==
    <<"5", "0", "3", " ", "S", "e", "r", "v", "e", "r", " ", "E", "r", "r", "o", "r", ":", " ">> \o r.reason \o <<" ", "f", "o", "r", " ", "u", "r", "l", ":", " ">> \o Url

Responses ==
    { [status |-> 200, shape |-> "generated_text", text |-> t,
       reason |-> <<"O", "K">>] : t \in Texts }
    \cup
    { [status |-> 200, shape |-> sh, text |-> <<>>, reason |-> <<"O", "K">>] :
          sh \in (JsonShapes \cup {"not_json"}) \ {"generated_text"} }
    \cup
    { [status |-> 503, shape |-> "not_json", text |-> <<>>, reason |-> r] :
          r \in Reasons }

NoResponse == [status |-> 0, shape |-> "none", text |-> <<>>, reason |-> <<>>]

MaxTimeouts == 2

(***************************************************************************)
(* The gateway call.                                                       *)
(***************************************************************************)

InitGateway ==
    /\ gpc = "idle"
    /\ response = NoResponse
    /\ exc = <<>>
    /\ generated_text = [is_str |-> TRUE, text |-> <<>>]
    /\ cleaned_response = <<>>
    /\ llm_result = <<>>
    /\ llm_raised = FALSE
    /\ timeouts = 0
    /\ attempts = 0

Raise(cls, text) ==
    /\ exc' = << [cls |-> cls, text |-> text] >>
    /\ gpc' = "except"

\* lines 70-88: call_llm is entered
CallLLM ==
    /\ gpc = "idle"
    /\ gpc' = "post"
    /\ response' = NoResponse
    /\ exc' = <<>>
    /\ generated_text' = [is_str |-> TRUE, text |-> <<>>]
    /\ cleaned_response' = <<>>
    /\ llm_result' = <<>>
    /\ llm_raised' = FALSE
    /\ UNCHANGED <<timeouts, rvars, avars, ovars, lvars, evars, cvars>>
    /\ attempts' = 0

\* line 91: requests.post returns a response
PostReturns ==
    /\ gpc = "post"
    /\ \E r \in Responses : response' = r
    /\ gpc' = "status"
    /\ timeouts' = 0
    /\ UNCHANGED <<exc, generated_text, cleaned_response, llm_result,
                   llm_raised, rvars, avars, ovars, lvars, evars, cvars>>
    /\ attempts' = attempts + 1

\* line 91: requests.post times out (timeout=60)
PostTimesOut(cls) ==
    /\ gpc = "post"
    /\ timeouts < MaxTimeouts
    /\ timeouts' = timeouts + 1
    /\ Raise(cls, <<"t", "i", "m", "e", "d", " ", "o", "u", "t">>)
    /\ UNCHANGED <<response, generated_text, cleaned_response, llm_result,
                   llm_raised, rvars, avars, ovars, lvars, evars, cvars>>
    /\ attempts' = attempts + 1

\* line 91: requests.post fails to connect
PostFails ==
    /\ gpc = "post"
    /\ timeouts' = 0
    /\ Raise("ConnectionError", <<"C", "o", "n", "n", "e", "c", "t", "i", "o", "n", " ", "r", "e", "f", "u", "s", "e", "d">>)
    /\ UNCHANGED <<response, generated_text, cleaned_response, llm_result,
                   llm_raised, rvars, avars, ovars, lvars, evars, cvars>>
    /\ attempts' = attempts + 1

\* line 92: response.raise_for_status()
RaiseForStatus ==
    /\ gpc = "status"
    /\ IF response.status >= 400
       THEN Raise("HTTPError", HTTPErrorText(response))
       ELSE gpc' = "json" /\ UNCHANGED exc
    /\ UNCHANGED <<response, generated_text, cleaned_response, llm_result,
                   llm_raised, timeouts, rvars, avars, ovars, lvars, evars,
                   cvars>>
    /\ UNCHANGED attempts

\* line 94: result = response.json(); the class of the decoding error is
\* the one of the installed requests
ResponseJson ==
    /\ gpc = "json"
    /\ IF response.shape = "not_json"
       THEN \E cls \in {"JSONDecodeError", "ValueError"} :
                Raise(cls, <<"E", "x", "p", "e", "c", "t", "i", "n", "g", " ", "v", "a", "l", "u", "e">>)
       ELSE gpc' = "extract" /\ UNCHANGED exc
    /\ UNCHANGED <<response, generated_text, cleaned_response, llm_result,
                   llm_raised, timeouts, rvars, avars, ovars, lvars, evars,
                   cvars>>
    /\ UNCHANGED attempts

\* line 95: result.get("predictions", [{}])[0].get("generated_text", "")
Extract ==
    /\ gpc = "extract"
    /\ CASE response.shape = "generated_text" ->
              /\ generated_text' = [is_str |-> TRUE, text |-> response.text]
              /\ gpc' = "clean" /\ UNCHANGED exc
         [] response.shape \in {"no_predictions", "no_generated_text"} ->
              /\ generated_text' = [is_str |-> TRUE, text |-> <<>>]
              /\ gpc' = "clean" /\ UNCHANGED exc
         [] response.shape = "text_not_str" ->
              /\ generated_text' = [is_str |-> FALSE, text |-> <<>>]
              /\ gpc' = "clean" /\ UNCHANGED exc
         [] response.shape = "empty_predictions" ->
              /\ Raise("IndexError", <<"l", "i", "s", "t", " ", "i", "n", "d", "e", "x", " ", "o", "u", "t", " ", "o", "f", " ", "r", "a", "n", "g", "e">>)
              /\ UNCHANGED generated_text
         [] response.shape \in {"prediction_not_dict", "result_not_dict"} ->
              /\ Raise("AttributeError", <<"o", "b", "j", "e", "c", "t", " ", "h", "a", "s", " ", "n", "o", " ", "a", "t", "t", "r", "i", "b", "u", "t", "e", " ", "'", "g", "e", "t", "'">>)
              /\ UNCHANGED generated_text
    /\ UNCHANGED <<response, cleaned_response, llm_result, llm_raised,
                   timeouts, rvars, avars, ovars, lvars, evars, cvars>>
    /\ UNCHANGED attempts

\* line 98: return self._clean_llm_response(generated_text)
Clean ==
    /\ gpc = "clean"
    /\ IF generated_text.is_str
       THEN /\ LET cleaned == CleanedResponse(generated_text.text)
               IN  /\ cleaned_response' = cleaned
                   /\ llm_result' = Truncate(cleaned)
            /\ gpc' = "done"
            /\ UNCHANGED exc
       ELSE /\ Raise("AttributeError", <<"o", "b", "j", "e", "c", "t", " ", "h", "a", "s", " ", "n", "o", " ", "a", "t", "t", "r", "i", "b", "u", "t", "e", " ", "'", "s", "p", "l", "i", "t", "'">>)
            /\ UNCHANGED <<cleaned_response, llm_result>>
    /\ UNCHANGED <<response, generated_text, llm_raised, timeouts, rvars,
                   avars, ovars, lvars, evars, cvars>>
    /\ UNCHANGED attempts

\* Variant of Except: a first failure of the transport is retried.
Except_RetryOnce ==
    /\ gpc = "except"
    /\ IF attempts < 2 /\ "RequestException" \in Bases[exc[1].cls]
       THEN /\ gpc' = "post"
            /\ exc' = <<>>
            /\ UNCHANGED <<llm_result, llm_raised>>
       ELSE /\ llm_result' = HandlerResult(Handlers[HandlerFor(exc[1].cls)],
                                          exc[1])
            /\ gpc' = "done"
            /\ UNCHANGED <<exc, llm_raised>>
    /\ UNCHANGED <<response, generated_text, cleaned_response, timeouts,
                   attempts, rvars, avars, ovars, lvars, evars, cvars>>

\* lines 100-108: the except clauses
Except ==
    /\ gpc = "except"
    /\ LET n == HandlerFor(exc[1].cls)
       IN  IF n = 0
           THEN llm_raised' = TRUE /\ UNCHANGED llm_result
           ELSE /\ llm_result' = HandlerResult(Handlers[n], exc[1])
                /\ UNCHANGED llm_raised
    /\ gpc' = "done"
    /\ UNCHANGED <<response, exc, generated_text, cleaned_response, timeouts,
                   rvars, avars, ovars, lvars, evars, cvars>>
    /\ UNCHANGED attempts

\* call_llm has returned (or raised) and the caller goes on
LLMReturn ==
    /\ gpc = "done"
    /\ gpc' = "idle"
    /\ UNCHANGED <<response, exc, generated_text, cleaned_response,
                   llm_result, llm_raised, timeouts, rvars, avars, ovars,
                   lvars, evars, cvars>>
    /\ UNCHANGED attempts

NextGateway ==
    \/ CallLLM
    \/ PostReturns
    \/ \E cls \in {"ReadTimeout", "ConnectTimeout"} : PostTimesOut(cls)
    \/ PostFails
    \/ RaiseForStatus
    \/ ResponseJson
    \/ Extract
    \/ Clean
    \/ Except
    \/ LLMReturn

(***************************************************************************)
(* The three agents: process_request and the strategies it selects.        *)
(***************************************************************************)

\* A context snapshot, reduced to what the strategies' formatting depends
\* on: whether it is a dict at all (data.get), and whether the fields the
\* f-strings format with ":.1f" / ":,.0f" (avg_score, avg_cost, ...) are
\* absent, numbers, or text.
EmptyDict == [is_dict |-> TRUE, numbers |-> "absent"]

Malformed ==
    { [is_dict |-> TRUE, numbers |-> "text"],
      [is_dict |-> FALSE, numbers |-> "absent"] }

Snapshots == Contexts \cup Malformed

\* The keys of a request dict; a key that is absent holds <<>>, a key that
\* is present holds << value >>.
RequestKeys ==
    { "user_query", "provider_data", "data", "intent", "analysis_type",
      "optimization_type", "report_type", "provider_id", "focus_areas" }

EmptyRequest == [ k \in RequestKeys |-> <<>> ]

\* dict.get(key, default)
Get(d, key, default) ==
    IF d[key] = <<>> THEN default ELSE d[key][1]

Agents == {"network_analyzer", "cost_optimizer", "report_generator"}

\* The names each agent module binds at module level (its imports and its
\* class).
ModuleGlobals ==
    [ network_analyzer |->
        {"Dict", "Any", "List", "pd", "BaseAgent", "NetworkAnalyzerAgent"},
      cost_optimizer   |->
        {"Dict", "Any", "List", "BaseAgent", "CostOptimizerAgent"},
      report_generator |->
        {"Dict", "Any", "List", "BaseAgent", "ReportGeneratorAgent"},
      orchestrator     |->
        {"Dict", "Any", "List", "Optional", "json", "BaseAgent",
         "NetworkAnalyzerAgent", "CostOptimizerAgent",
         "ReportGeneratorAgent", "AgentOrchestrator"} ]

\* The strategy methods each agent class defines.
Methods ==
    [ network_analyzer |->
        {<<"_", "a", "n", "a", "l", "y", "z", "e", "_", "p", "r", "o", "v", "i", "d", "e", "r", "_", "p", "e", "r", "f", "o", "r", "m", "a", "n", "c", "e">>, <<"_", "a", "n", "a", "l", "y", "z", "e", "_", "n", "e", "t", "w", "o", "r", "k", "_", "s", "u", "m", "m", "a", "r", "y">>},
      cost_optimizer   |->
        {<<"_", "g", "e", "n", "e", "r", "a", "t", "e", "_", "c", "o", "s", "t", "_", "r", "e", "d", "u", "c", "t", "i", "o", "n", "_", "s", "t", "r", "a", "t", "e", "g", "i", "e", "s">>},
      report_generator |->
        {<<"_", "g", "e", "n", "e", "r", "a", "t", "e", "_", "e", "x", "e", "c", "u", "t", "i", "v", "e", "_", "s", "u", "m", "m", "a", "r", "y">>,
         <<"_", "g", "e", "n", "e", "r", "a", "t", "e", "_", "p", "r", "o", "v", "i", "d", "e", "r", "_", "d", "i", "a", "g", "n", "o", "s", "t", "i", "c", "s", "_", "r", "e", "p", "o", "r", "t">>} ]

ClassName ==
    [ network_analyzer |-> <<"N", "e", "t", "w", "o", "r", "k", "A", "n", "a", "l", "y", "z", "e", "r", "A", "g", "e", "n", "t">>,
      cost_optimizer   |-> <<"C", "o", "s", "t", "O", "p", "t", "i", "m", "i", "z", "e", "r", "A", "g", "e", "n", "t">>,
      report_generator |-> <<"R", "e", "p", "o", "r", "t", "G", "e", "n", "e", "r", "a", "t", "o", "r", "A", "g", "e", "n", "t">> ]

\* The request key that carries the strategy name, and its default.
TypeKey ==
    [ network_analyzer |-> "analysis_type",
      cost_optimizer   |-> "optimization_type",
      report_generator |-> "report_type" ]

TypeDefault ==
    [ network_analyzer |-> "general",
      cost_optimizer   |-> "general",
      report_generator |-> "network_summary" ]

\* The request key each agent reads its data from.
DataKey ==
    [ network_analyzer |-> "provider_data",
      cost_optimizer   |-> "provider_data",
      report_generator |-> "data" ]

\* The if/elif chain of each process_request: the method the type selects.
StrategyFor(a, type) ==
    IF a = "network_analyzer" THEN
        IF type = "provider_performance" THEN <<"_", "a", "n", "a", "l", "y", "z", "e", "_", "p", "r", "o", "v", "i", "d", "e", "r", "_", "p", "e", "r", "f", "o", "r", "m", "a", "n", "c", "e">>
        ELSE IF type = "network_summary" THEN <<"_", "a", "n", "a", "l", "y", "z", "e", "_", "n", "e", "t", "w", "o", "r", "k", "_", "s", "u", "m", "m", "a", "r", "y">>
        ELSE IF type = "quality_trends" THEN <<"_", "a", "n", "a", "l", "y", "z", "e", "_", "q", "u", "a", "l", "i", "t", "y", "_", "t", "r", "e", "n", "d", "s">>
        ELSE IF type = "cost_analysis" THEN <<"_", "a", "n", "a", "l", "y", "z", "e", "_", "c", "o", "s", "t", "_", "p", "e", "r", "f", "o", "r", "m", "a", "n", "c", "e">>
        ELSE <<"_", "g", "e", "n", "e", "r", "a", "l", "_", "n", "e", "t", "w", "o", "r", "k", "_", "a", "n", "a", "l", "y", "s", "i", "s">>
    ELSE IF a = "cost_optimizer" THEN
        IF type = "cost_reduction" THEN <<"_", "g", "e", "n", "e", "r", "a", "t", "e", "_", "c", "o", "s", "t", "_", "r", "e", "d", "u", "c", "t", "i", "o", "n", "_", "s", "t", "r", "a", "t", "e", "g", "i", "e", "s">>
        ELSE IF type = "contract_analysis" THEN <<"_", "a", "n", "a", "l", "y", "z", "e", "_", "c", "o", "n", "t", "r", "a", "c", "t", "_", "o", "p", "p", "o", "r", "t", "u", "n", "i", "t", "i", "e", "s">>
        ELSE IF type = "provider_replacement"
             THEN <<"_", "a", "n", "a", "l", "y", "z", "e", "_", "p", "r", "o", "v", "i", "d", "e", "r", "_", "r", "e", "p", "l", "a", "c", "e", "m", "e", "n", "t", "_", "o", "p", "t", "i", "o", "n", "s">>
        ELSE IF type = "network_efficiency" THEN <<"_", "a", "n", "a", "l", "y", "z", "e", "_", "n", "e", "t", "w", "o", "r", "k", "_", "e", "f", "f", "i", "c", "i", "e", "n", "c", "y">>
        ELSE <<"_", "g", "e", "n", "e", "r", "a", "l", "_", "c", "o", "s", "t", "_", "a", "n", "a", "l", "y", "s", "i", "s">>
    ELSE
        IF type = "executive_summary" THEN <<"_", "g", "e", "n", "e", "r", "a", "t", "e", "_", "e", "x", "e", "c", "u", "t", "i", "v", "e", "_", "s", "u", "m", "m", "a", "r", "y">>
        ELSE IF type = "provider_diagnostics"
             THEN <<"_", "g", "e", "n", "e", "r", "a", "t", "e", "_", "p", "r", "o", "v", "i", "d", "e", "r", "_", "d", "i", "a", "g", "n", "o", "s", "t", "i", "c", "s", "_", "r", "e", "p", "o", "r", "t">>
        ELSE IF type = "cost_optimization"
             THEN <<"_", "g", "e", "n", "e", "r", "a", "t", "e", "_", "c", "o", "s", "t", "_", "o", "p", "t", "i", "m", "i", "z", "a", "t", "i", "o", "n", "_", "r", "e", "p", "o", "r", "t">>
        ELSE IF type = "quality_analysis"
             THEN <<"_", "g", "e", "n", "e", "r", "a", "t", "e", "_", "q", "u", "a", "l", "i", "t", "y", "_", "a", "n", "a", "l", "y", "s", "i", "s", "_", "r", "e", "p", "o", "r", "t">>
        ELSE IF type = "network_adequacy"
             THEN <<"_", "g", "e", "n", "e", "r", "a", "t", "e", "_", "n", "e", "t", "w", "o", "r", "k", "_", "a", "d", "e", "q", "u", "a", "c", "y", "_", "r", "e", "p", "o", "r", "t">>
        ELSE <<"_", "g", "e", "n", "e", "r", "a", "t", "e", "_", "c", "o", "m", "p", "r", "e", "h", "e", "n", "s", "i", "v", "e", "_", "r", "e", "p", "o", "r", "t">>

\* The result key under which a strategy returns the gateway's text.
ContentKey ==
    [ network_analyzer |-> "analysis",
      cost_optimizer   |-> "strategies",
      report_generator |-> "report_content" ]

NoException == <<>>

Exception(cls, text, step) ==
    << [cls |-> cls, text |-> text, step |-> step] >>

\* What formatting the context raises, if anything.  data is the snapshot
\* the strategy was handed, provider_id the request's "provider_id".
\*   _format_provider_context reads data only behind "provider_id and";
\*   the other formatters call data.get and format numbers with ":.1f".
FormatError(method, data, provider_id) ==
    IF method = <<"_", "a", "n", "a", "l", "y", "z", "e", "_", "p", "r", "o", "v", "i", "d", "e", "r", "_", "p", "e", "r", "f", "o", "r", "m", "a", "n", "c", "e">> THEN
        IF provider_id # <<>> /\ ~data.is_dict
        THEN Exception("TypeError",
                       <<"a", "r", "g", "u", "m", "e", "n", "t", " ", "o", "f", " ", "t", "y", "p", "e", " ", "'", "N", "o", "n", "e", "T", "y", "p", "e", "'", " ", "i", "s", " ", "n", "o", "t", " ", "i", "t", "e", "r", "a", "b", "l", "e">>,
                       "format")
        ELSE NoException
    ELSE IF ~data.is_dict
    THEN Exception("AttributeError",
                   <<"'", "N", "o", "n", "e", "T", "y", "p", "e", "'", " ", "o", "b", "j", "e", "c", "t", " ", "h", "a", "s", " ", "n", "o", " ", "a", "t", "t", "r", "i", "b", "u", "t", "e", " ", "'", "g", "e", "t", "'">>, "format")
    ELSE IF data.numbers = "text"
    THEN Exception("ValueError",
                   <<"U", "n", "k", "n", "o", "w", "n", " ", "f", "o", "r", "m", "a", "t", " ", "c", "o", "d", "e", " ", "'", "f", "'", " ", "f", "o", "r", " ", "o", "b", "j", "e", "c", "t", " ", "o", "f", " ", "t", "y", "p", "e", " ", "'", "s", "t", "r", "'">>,
                   "format")
    ELSE NoException

\* Variant of AgentHandlers: process_request has no except clause.
AgentHandlers_None == << >>

\* The except clauses of process_request.
AgentHandlers == << "Exception" >>

AgentCatches(cls) ==
    \E n \in DOMAIN AgentHandlers : AgentHandlers[n] \in Bases[cls]

\* Variant of ErrorString: the message is dropped.
ErrorString_Empty(e) == << >>

\* str(e)
ErrorString(e) == e.text

\* The texts call_llm hands back to a strategy: an empty text, a generated
\* text, and the two fixed sentinels.
LLMTexts ==
    { <<>>, <<"N", "e", "t", "w", "o", "r", "k", " ", "l", "o", "o", "k", "s", " ", "h", "e", "a", "l", "t", "h", "y", ".">>, TimeoutSentinel, GenericSentinel }

NoResult == <<>>

InitAgent ==
    /\ apc = "idle"
    /\ cur_agent = None
    /\ request = EmptyRequest
    /\ strategy = None
    /\ formatted = <<>>
    /\ a_exc = NoException
    /\ llm_text = <<>>
    /\ llm_calls = 0
    /\ agent_result = NoResult
    /\ agent_raised = FALSE

InitRoute ==
    /\ route_result = NoResult
    /\ route_raised = NoException
    /\ invoked = <<>>
    /\ log_at_entry = <<>>

InitLog ==
    /\ lpc = "idle"
    /\ conversation_history = <<>>
    /\ add_args = <<>>
    /\ add_raised = NoException
    /\ submitted = <<>>

\* process_request is entered with request req (the locals are read from
\* the request before the try).
EnterProcessRequest(a, req) ==
    /\ cur_agent' = a
    /\ request' = req
    /\ strategy' = StrategyFor(a, Get(req, TypeKey[a], TypeDefault[a]))
    /\ formatted' = <<>>
    /\ a_exc' = NoException
    /\ llm_text' = <<>>
    /\ llm_calls' = 0
    /\ agent_result' = NoResult
    /\ agent_raised' = FALSE
    /\ apc' = "select"

\* The requests process_request is called with directly.
Requests(a) ==
    { [ [ [ EmptyRequest EXCEPT ![TypeKey[a]] = type ]
                         EXCEPT ![DataKey[a]] = data ]
                         EXCEPT !.provider_id = pid ] :
        type \in {<<>>}
                 \cup { <<t>> : t \in
                          {"provider_performance", "network_summary",
                           "quality_trends", "cost_analysis", "general",
                           "cost_reduction", "contract_analysis",
                           "provider_replacement", "network_efficiency",
                           "executive_summary", "provider_diagnostics",
                           "cost_optimization", "quality_analysis",
                           "network_adequacy", "comprehensive"} },
        data \in {<<>>} \cup { <<s>> : s \in Snapshots },
        pid \in { <<>>, <<"p1">> } }

ProcessRequest ==
    /\ apc = "idle"
    /\ \E a \in Agents : \E req \in Requests(a) : EnterProcessRequest(a, req)
    /\ UNCHANGED <<rvars, gvars, ovars, lvars, evars, cvars>>

\* The selected branch looks its method up on self.
SelectStrategy ==
    /\ apc = "select"
    /\ IF strategy \in Methods[cur_agent]
       THEN /\ apc' = "format"
            /\ a_exc' = a_exc
       ELSE /\ a_exc' = Exception("AttributeError",
                           <<"'">> \o ClassName[cur_agent]
                             \o <<"'", " ", "o", "b", "j", "e", "c", "t", " ", "h", "a", "s", " ", "n", "o", " ", "a", "t", "t", "r", "i", "b", "u", "t", "e", " ", "'">>
                             \o strategy \o <<"'">>, "select")
            /\ apc' = "except"
    /\ UNCHANGED <<cur_agent, request, strategy, formatted, llm_text,
                   llm_calls, agent_result, agent_raised, rvars, gvars,
                   ovars, lvars, evars, cvars>>

\* The strategy formats its context block and builds the prompt.
FormatContext ==
    /\ apc = "format"
    /\ LET data == Get(request, DataKey[cur_agent], EmptyDict)
           e    == FormatError(strategy, data, request.provider_id)
       IN  /\ formatted' = << data >>
           /\ a_exc' = e
           /\ apc' = IF e = NoException THEN "call_llm" ELSE "except"
    /\ UNCHANGED <<cur_agent, request, strategy, llm_text, llm_calls,
                   agent_result, agent_raised, rvars, gvars, ovars, lvars,
                   evars, cvars>>

\* The strategy calls self.call_llm(prompt, ...), which returns a text.
StrategyCallsLLM ==
    /\ apc = "call_llm"
    /\ \E text \in LLMTexts : llm_text' = text
    /\ llm_calls' = llm_calls + 1
    /\ apc' = "result"
    /\ UNCHANGED <<cur_agent, request, strategy, formatted, a_exc,
                   agent_result, agent_raised, rvars, gvars, ovars, lvars,
                   evars, cvars>>

\* The strategy builds its result dict; "timestamp": datetime.now() looks
\* the name datetime up in the module's globals.
ConstructResult ==
    /\ apc = "result"
    /\ IF "datetime" \in ModuleGlobals[cur_agent]
       THEN /\ agent_result' =
                 << [success |-> TRUE, error |-> <<>>,
                     content |-> << llm_text >>,
                     key |-> ContentKey[cur_agent]] >>
            /\ a_exc' = a_exc
            /\ apc' = "returned"
       ELSE /\ a_exc' = Exception("NameError",
                                  <<"n", "a", "m", "e", " ", "'", "d", "a", "t", "e", "t", "i", "m", "e", "'", " ", "i", "s", " ", "n", "o", "t", " ", "d", "e", "f", "i", "n", "e", "d">>,
                                  "result")
            /\ agent_result' = agent_result
            /\ apc' = "except"
    /\ UNCHANGED <<cur_agent, request, strategy, formatted, llm_text,
                   llm_calls, agent_raised, rvars, gvars, ovars, lvars,
                   evars, cvars>>

\* except Exception as e: return {"success": False, "error": str(e), ...}
AgentExcept ==
    /\ apc = "except"
    /\ IF AgentCatches(a_exc[1].cls)
       THEN /\ agent_result' =
                 << [success |-> FALSE,
                     error |-> << ErrorString(a_exc[1]) >>,
                     content |-> <<>>, key |-> None] >>
            /\ agent_raised' = FALSE
       ELSE /\ agent_result' = NoResult
            /\ agent_raised' = TRUE
    /\ apc' = "returned"
    /\ UNCHANGED <<cur_agent, request, strategy, formatted, a_exc, llm_text,
                   llm_calls, rvars, gvars, ovars, lvars, evars, cvars>>

\* The caller has taken the result.
AgentDone ==
    /\ apc = "returned"
    /\ apc' = "idle"
    /\ UNCHANGED <<cur_agent, request, strategy, formatted, a_exc, llm_text,
                   llm_calls, agent_result, agent_raised, rvars, gvars,
                   ovars, lvars, evars, cvars>>

NextAgent ==
    \/ ProcessRequest
    \/ SelectStrategy
    \/ FormatContext
    \/ StrategyCallsLLM
    \/ ConstructResult
    \/ AgentExcept
    \/ AgentDone


(***************************************************************************)
(* BaseAgent.__init__ and _find_best_model_endpoint                        *)
(***************************************************************************)

\* lines 33-37
preferred_models ==
    << <<"d", "a", "t", "a", "b", "r", "i", "c", "k", "s", "-", "l", "l", "a", "m", "a", "-", "2", "-", "7", "0", "b", "-", "c", "h", "a", "t">>,
       <<"d", "a", "t", "a", "b", "r", "i", "c", "k", "s", "-", "m", "p", "t", "-", "3", "0", "b", "-", "i", "n", "s", "t", "r", "u", "c", "t">>,
       <<"d", "a", "t", "a", "b", "r", "i", "c", "k", "s", "-", "d", "o", "l", "l", "y", "-", "v", "2", "-", "1", "2", "b">> >>

\* line 54
DefaultEndpoint == <<"d", "a", "t", "a", "b", "r", "i", "c", "k", "s", "-", "l", "l", "a", "m", "a", "-", "2", "-", "7", "b", "-", "c", "h", "a", "t">>

MaxEndpoints == 2

\* The names serving_endpoints.list() may report.
EndpointNames ==
    { <<"d", "a", "t", "a", "b", "r", "i", "c", "k", "s", "-", "l", "l", "a", "m", "a", "-", "2", "-", "7", "0", "b", "-", "c", "h", "a", "t">>,
      <<"D", "a", "t", "a", "b", "r", "i", "c", "k", "s", "-", "M", "P", "T", "-", "3", "0", "B", "-", "I", "n", "s", "t", "r", "u", "c", "t">>,
      <<"t", "e", "a", "m", "-", "d", "a", "t", "a", "b", "r", "i", "c", "k", "s", "-", "d", "o", "l", "l", "y", "-", "v", "2", "-", "1", "2", "b", "-", "p", "r", "o", "d">>,
      <<"d", "a", "t", "a", "b", "r", "i", "c", "k", "s", "-", "m", "p", "t", "-", "3", "0", "b", "-", "i", "n", "s", "t", "r", "u", "c", "t", "-", "v", "2">>,
      <<"c", "u", "s", "t", "o", "m", "-", "m", "o", "d", "e", "l">> }

\* What serving_endpoints.list() returns: the endpoints' names in the
\* order listed.
Listings ==
    UNION { [ 1..n -> EndpointNames ] : n \in 0..MaxEndpoints }

RECURSIVE Flatten(_)
Flatten(seqs) ==
    IF seqs = <<>> THEN <<>> ELSE Head(seqs) \o Flatten(Tail(seqs))

\* Variant of MatchOrder: the endpoints are walked in the outer loop.
MatchOrder_EndpointsFirst(listed) ==
    Flatten([ i \in DOMAIN listed |->
                [ m \in DOMAIN preferred_models |-> <<m, i>> ] ])

\* lines 39-40: the pairs (model, endpoint) in the order the nested loops
\* visit them.
MatchOrder(listed) ==
    Flatten([ m \in DOMAIN preferred_models |->
                [ i \in DOMAIN listed |-> <<m, i>> ] ])

\* line 41: model in endpoint.name.lower()
EndpointMatches(model, name) == Contains(Lower(name), model)

\* lines 39-49, on the list the call at line 30 returned
SelectEndpoint(listed) ==
    LET order == MatchOrder(listed)
        hits  == { n \in DOMAIN order :
                     EndpointMatches(preferred_models[order[n][1]],
                                     listed[order[n][2]]) }
    IN  IF hits # {}
        THEN LET first == CHOOSE n \in hits : \A k \in hits : n <= k
             IN  listed[order[first][2]]
        ELSE IF listed # <<>>
        THEN listed[1]
        ELSE DefaultEndpoint

InitEndpoint ==
    /\ epc = "idle"
    /\ model_arg = <<>>
    /\ endpoints = <<>>
    /\ list_failed = FALSE
    /\ model_endpoint = <<>>
    /\ probes = 0

\* line 23: self.model_endpoint = model_endpoint or
\* self._find_best_model_endpoint(); arg is <<>> for None.
Construct(arg) ==
    /\ epc \in {"idle", "done"}
    /\ model_arg' = arg
    /\ endpoints' = <<>>
    /\ list_failed' = FALSE
    /\ probes' = 0
    /\ IF arg # <<>> /\ arg[1] # <<>>
       THEN /\ model_endpoint' = arg
            /\ epc' = "done"
       ELSE /\ model_endpoint' = <<>>
            /\ epc' = "list"
    /\ UNCHANGED <<rvars, gvars, avars, ovars, lvars, cvars>>

\* line 30: serving_endpoints.list() returns
ListReturns ==
    /\ epc = "list"
    /\ \E l \in Listings : endpoints' = l
    /\ probes' = probes + 1
    /\ epc' = "select"
    /\ UNCHANGED <<model_arg, list_failed, model_endpoint, rvars, gvars,
                   avars, ovars, lvars, cvars>>

\* line 30: serving_endpoints.list() raises
ListRaises ==
    /\ epc = "list"
    /\ list_failed' = TRUE
    /\ probes' = probes + 1
    /\ epc' = "except"
    /\ UNCHANGED <<model_arg, endpoints, model_endpoint, rvars, gvars, avars,
                   ovars, lvars, cvars>>

\* lines 39-49 (and line 54 when the list is empty)
FindBest ==
    /\ epc = "select"
    /\ model_endpoint' = << SelectEndpoint(endpoints) >>
    /\ epc' = "done"
    /\ UNCHANGED <<model_arg, endpoints, list_failed, probes, rvars, gvars,
                   avars, ovars, lvars, cvars>>

\* lines 51-54: the exception is logged and the default is returned
FindExcept ==
    /\ epc = "except"
    /\ model_endpoint' = << DefaultEndpoint >>
    /\ epc' = "done"
    /\ UNCHANGED <<model_arg, endpoints, list_failed, probes, rvars, gvars,
                   avars, ovars, lvars, cvars>>

NextEndpoint ==
    \/ \E arg \in { <<>>, << <<>> >>, << <<"m", "y", "-", "e", "n", "d", "p", "o", "i", "n", "t">> >> } : Construct(arg)
    \/ ListReturns
    \/ ListRaises
    \/ FindBest
    \/ FindExcept

(***************************************************************************)
(* add_to_conversation called by several callers at once.                  *)
(***************************************************************************)

MaxCallers == 2

Callers == 1..MaxCallers

InitCallers ==
    /\ cpc = [ c \in Callers |-> "idle" ]
    /\ cargs = [ c \in Callers |-> <<>> ]

\* caller c enters add_to_conversation(q, response)
CallerEnters(c, q) ==
    /\ cpc[c] = "idle"
    /\ cpc' = [ cpc EXCEPT ![c] = "entry" ]
    /\ cargs' = [ cargs EXCEPT ![c] = << q >> ]
    /\ UNCHANGED <<rvars, gvars, avars, ovars, lvars, evars>>

\* lines 242-243: caller c builds the entry dict, the argument of append;
\* its first item, datetime.now(), looks datetime up in the module's
\* globals, which do not bind it, and the NameError leaves the call.
\* Lines 250-254 (append, length test, slice, assignment) are not reached.
CallerBuildsEntry(c) ==
    /\ cpc[c] = "entry"
    /\ "datetime" \notin ModuleGlobals.orchestrator
    /\ cpc' = [ cpc EXCEPT ![c] = "raised" ]
    /\ UNCHANGED <<cargs, rvars, gvars, avars, ovars, lvars, evars>>

NextCallers ==
    \/ \E c \in Callers, q \in QueryFragments : CallerEnters(c, q)
    \/ \E c \in Callers : CallerBuildsEntry(c)

(***************************************************************************)
(* The router.                                                             *)
(***************************************************************************)

InitRouter ==
    /\ user_query = None
    /\ context = None
    /\ intent = None
    /\ earlier = <<>>
    /\ rpc = "idle"

\* The queries of the next call.  While the history holds an earlier call,
\* the calls that follow it are the ones whose query differs from its query
\* at most in letter case; every other sequence of calls runs with the
\* history dropped (RouteReturn).
NextQueries ==
    IF earlier = <<>> THEN Queries ELSE CaseVariants(earlier[1].user_query)

\* route_request, line 38: intent = self._classify_intent(user_query).
RouteRequest(q, ctx) ==
    /\ rpc = "idle"
    /\ user_query' = q
    /\ context' = ctx
    /\ intent' = _classify_intent(q)
    /\ rpc' = "classified"
    /\ log_at_entry' = conversation_history
    /\ UNCHANGED <<earlier, route_result, route_raised, invoked, gvars,
                   avars, lvars, evars, cvars>>

\* route_request returns; its locals are gone.  keep: the history records
\* this call.
RouteReturn(keep) ==
    /\ rpc = "classified"
    /\ earlier' =
         IF keep
         THEN << [user_query |-> user_query, context |-> context,
                  intent |-> intent] >>
         ELSE <<>>
    /\ user_query' = None
    /\ context' = None
    /\ intent' = None
    /\ rpc' = "idle"
    /\ UNCHANGED <<gvars, avars, ovars, lvars, evars, cvars>>

Init ==
    /\ InitRouter /\ InitGateway /\ InitAgent /\ InitRoute /\ InitLog
    /\ InitEndpoint /\ InitCallers

Next ==
    \/ \E q \in NextQueries, ctx \in Contexts : RouteRequest(q, ctx)
    \/ \E keep \in BOOLEAN : RouteReturn(keep)

Spec == Init /\ [][Next]_vars

SpecGateway == Init /\ [][NextGateway]_vars

(***************************************************************************)
(* route_request past the classification: the dispatch to the agents.      *)
(***************************************************************************)

\* Variant of agent_routes: every intent is routed to the network analyzer.
agent_routes_AllNetwork ==
    [ network_analysis  |-> "network_analyzer",
      cost_optimization |-> "network_analyzer",
      report_generation |-> "network_analyzer" ]

\* line 26-30: self.agent_routes
agent_routes ==
    [ network_analysis  |-> "network_analyzer",
      cost_optimization |-> "cost_optimizer",
      report_generation |-> "report_generator" ]

\* Variant of _build_agent_request: the cues are looked up in the query as
\* typed, not in its lower-cased text.
_build_agent_request_NoLower(query, ctx, int) ==
    LET base_request ==
            [ EmptyRequest EXCEPT !.user_query = << query >>,
                                  !.provider_data = << ctx >>,
                                  !.intent = << int >> ]
    IN  IF int.primary_agent = "cost_optimization" THEN
            [ base_request EXCEPT !.optimization_type =
                IF AnyIn(<< <<"s", "a", "v", "e">>, <<"r", "e", "d", "u", "c", "e">> >>, query)
                THEN << "cost_reduction" >> ELSE << "general" >> ]
        ELSE IF int.primary_agent = "network_analysis" THEN
            [ base_request EXCEPT !.analysis_type =
                IF AnyIn(<< <<"d", "r", ".">>, <<"p", "r", "o", "v", "i", "d", "e", "r">>, <<"d", "o", "c", "t", "o", "r">> >>, query)
                THEN << "provider_performance" >>
                ELSE << "network_summary" >> ]
        ELSE IF int.primary_agent = "report_generation" THEN
            [ base_request EXCEPT !.report_type =
                IF AnyIn(<< <<"e", "x", "e", "c", "u", "t", "i", "v", "e">>, <<"s", "u", "m", "m", "a", "r", "y">> >>, query)
                THEN << "executive_summary" >>
                ELSE << "provider_diagnostics" >> ]
        ELSE base_request

\* lines 177-209
_build_agent_request(query, ctx, int) ==
    LET base_request ==
            [ EmptyRequest EXCEPT !.user_query = << query >>,
                                  !.provider_data = << ctx >>,
                                  !.intent = << int >> ]
        query_lower == Lower(query)
    IN  IF int.primary_agent = "cost_optimization" THEN
            [ base_request EXCEPT !.optimization_type =
                IF AnyIn(<< <<"s", "a", "v", "e">>, <<"r", "e", "d", "u", "c", "e">> >>, query_lower)
                THEN << "cost_reduction" >> ELSE << "general" >> ]
        ELSE IF int.primary_agent = "network_analysis" THEN
            [ base_request EXCEPT !.analysis_type =
                IF AnyIn(<< <<"d", "r", ".">>, <<"p", "r", "o", "v", "i", "d", "e", "r">>, <<"d", "o", "c", "t", "o", "r">> >>, query_lower)
                THEN << "provider_performance" >>
                ELSE << "network_summary" >> ]
        ELSE IF int.primary_agent = "report_generation" THEN
            [ base_request EXCEPT !.report_type =
                IF AnyIn(<< <<"e", "x", "e", "c", "u", "t", "i", "v", "e">>, <<"s", "u", "m", "m", "a", "r", "y">> >>, query_lower)
                THEN << "executive_summary" >>
                ELSE << "provider_diagnostics" >> ]
        ELSE base_request

\* lines 215-219: general_request
general_request(query, ctx) ==
    [ EmptyRequest EXCEPT !.analysis_type = << "general" >>,
                          !.user_query = << query >>,
                          !.provider_data = << ctx >> ]

\* lines 40-42 and 101-108: the multi-agent handler builds its results dict
\* first; "timestamp": datetime.now() looks datetime up in the module's
\* globals, which do not bind it, and the NameError leaves route_request
\* (neither function has a try).  Lines 110-143 are not reached.
HandleMultiAgent ==
    /\ rpc = "classified"
    /\ intent.primary_agent = "multi_agent"
    /\ "datetime" \notin ModuleGlobals.orchestrator
    /\ route_raised' = Exception("NameError",
                                 <<"n", "a", "m", "e", " ", "'", "d", "a", "t", "e", "t", "i", "m", "e", "'", " ", "i", "s", " ", "n", "o", "t", " ", "d", "e", "f", "i", "n", "e", "d">>,
                                 "results")
    /\ rpc' = "raised"
    /\ UNCHANGED <<user_query, context, intent, earlier, route_result,
                   invoked, log_at_entry, gvars, avars, lvars, evars, cvars>>

\* lines 43-50: the single-agent branch calls process_request of the agent
\* the intent names, or of the network analyzer when it names none.
DispatchAgent ==
    /\ rpc = "classified"
    /\ intent.primary_agent # "multi_agent"
    /\ apc = "idle"
    /\ IF intent.primary_agent \in DOMAIN agent_routes
       THEN LET a == agent_routes[intent.primary_agent]
                req == _build_agent_request(user_query, context, intent)
            IN  /\ EnterProcessRequest(a, req)
                /\ invoked' = Append(invoked, [callee |-> a, arg |-> req])
       ELSE LET req == general_request(user_query, context)
            IN  /\ EnterProcessRequest("network_analyzer", req)
                /\ invoked' = Append(invoked,
                                [callee |-> "network_analyzer", arg |-> req])
    /\ rpc' = "dispatched"
    /\ UNCHANGED <<user_query, context, intent, earlier, route_result,
                   route_raised, log_at_entry, gvars, lvars, evars, cvars>>

\* process_request is over: route_request returns what it returned, or the
\* exception that left it.
RouteReturns ==
    /\ rpc = "dispatched"
    /\ apc = "returned"
    /\ IF agent_raised
       THEN /\ route_raised' = a_exc
            /\ route_result' = route_result
            /\ rpc' = "raised"
       ELSE /\ route_result' = agent_result
            /\ route_raised' = route_raised
            /\ rpc' = "returned"
    /\ apc' = "idle"
    /\ UNCHANGED <<user_query, context, intent, earlier, invoked,
                   log_at_entry, cur_agent, request, strategy, formatted,
                   a_exc, llm_text, llm_calls, agent_result, agent_raised,
                   gvars, lvars, evars, cvars>>

\* The caller has the outcome of route_request; the router is ready for the
\* next call.
RouteDone ==
    /\ rpc \in {"returned", "raised"}
    /\ user_query' = None
    /\ context' = None
    /\ intent' = None
    /\ rpc' = "idle"
    /\ route_result' = NoResult
    /\ route_raised' = NoException
    /\ invoked' = <<>>
    /\ log_at_entry' = <<>>
    /\ apc' = "idle"
    /\ cur_agent' = None
    /\ request' = EmptyRequest
    /\ strategy' = None
    /\ formatted' = <<>>
    /\ a_exc' = NoException
    /\ llm_text' = <<>>
    /\ llm_calls' = 0
    /\ agent_result' = NoResult
    /\ agent_raised' = FALSE
    /\ UNCHANGED <<earlier, gvars, lvars, evars, cvars>>

NextRoute ==
    \/ \E q \in Queries, ctx \in Snapshots : RouteRequest(q, ctx)
    \/ HandleMultiAgent
    \/ DispatchAgent
    \/ SelectStrategy
    \/ FormatContext
    \/ StrategyCallsLLM
    \/ ConstructResult
    \/ AgentExcept
    \/ RouteReturns
    \/ RouteDone

SpecRoute == Init /\ [][NextRoute]_vars

(***************************************************************************)
(* The conversation log.                                                   *)
(***************************************************************************)

MaxAdds == 2

MaxHistory == 50

\* The response dicts handed to add_to_conversation: with and without the
\* "success" key.
LogResponses ==
    { [success |-> <<>>], [success |-> << FALSE >>] }

\* add_to_conversation(user_query, response) is entered
AddToConversation(q, resp) ==
    /\ lpc = "idle"
    /\ Len(submitted) < MaxAdds
    /\ add_args' = << [user_query |-> q, response |-> resp] >>
    /\ add_raised' = NoException
    /\ submitted' = Append(submitted, q)
    /\ lpc' = "append"
    /\ UNCHANGED <<conversation_history, rvars, gvars, avars, ovars, evars,
                   cvars>>

\* list[-n:]
LastN(s, n) ==
    IF Len(s) <= n THEN s ELSE SubSeq(s, Len(s) - n + 1, Len(s))

\* lines 242-254: the entry is built before append is called;
\* "timestamp": datetime.now() is its first item.
AppendEntry ==
    /\ lpc = "append"
    /\ IF "datetime" \in ModuleGlobals.orchestrator
       THEN /\ conversation_history' =
                 LastN(Append(conversation_history,
                              [ user_query |-> add_args[1].user_query,
                                success |->
                                  IF add_args[1].response.success = <<>>
                                  THEN FALSE
                                  ELSE add_args[1].response.success[1] ]),
                       MaxHistory)
            /\ add_raised' = add_raised
            /\ lpc' = "returned"
       ELSE /\ add_raised' = Exception("NameError",
                                       <<"n", "a", "m", "e", " ", "'", "d", "a", "t", "e", "t", "i", "m", "e", "'", " ", "i", "s", " ", "n", "o", "t", " ", "d", "e", "f", "i", "n", "e", "d">>,
                                       "entry")
            /\ conversation_history' = conversation_history
            /\ lpc' = "raised"
    /\ UNCHANGED <<add_args, submitted, rvars, gvars, avars, ovars, evars,
                   cvars>>

\* The caller has the outcome of add_to_conversation.
AddDone ==
    /\ lpc \in {"returned", "raised"}
    /\ lpc' = "idle"
    /\ UNCHANGED <<conversation_history, add_args, add_raised, submitted,
                   rvars, gvars, avars, ovars, evars, cvars>>

NextLog ==
    \/ \E q \in QueryFragments, resp \in LogResponses :
           AddToConversation(q, resp)
    \/ AppendEntry
    \/ AddDone

SpecLog == Init /\ [][NextLog]_vars

SpecAgent == Init /\ [][NextAgent]_vars

SpecEndpoint == Init /\ [][NextEndpoint]_vars

SpecCallers == Init /\ [][NextCallers]_vars

(***************************************************************************)
(* process_request together with the gateway call its strategy makes.      *)
(***************************************************************************)

\* Requests as the router builds them: one whose strategy is missing and
\* two whose strategy reaches call_llm.
CallRequests ==
    { [agent |-> "cost_optimizer",
       request |-> [ EmptyRequest EXCEPT
                       !.optimization_type = << "general" >>,
                       !.provider_data = << EmptyDict >> ]],
      [agent |-> "network_analyzer",
       request |-> [ EmptyRequest EXCEPT
                       !.analysis_type = << "network_summary" >>,
                       !.provider_data = << EmptyDict >> ]],
      [agent |-> "report_generator",
       request |-> [ EmptyRequest EXCEPT
                       !.report_type = << "executive_summary" >>,
                       !.provider_data = << EmptyDict >> ]] }

CallProcessRequest ==
    /\ apc = "idle"
    /\ gpc = "idle"
    /\ \E r \in CallRequests : EnterProcessRequest(r.agent, r.request)
    /\ UNCHANGED <<rvars, gvars, ovars, lvars, evars, cvars>>

\* The strategy enters self.call_llm(prompt, ...).
StrategyEntersLLM ==
    /\ apc = "call_llm"
    /\ CallLLM

\* call_llm is over: the strategy has its text, or the exception that left
\* call_llm.
StrategyLeavesLLM ==
    /\ apc = "call_llm"
    /\ gpc = "done"
    /\ gpc' = "idle"
    /\ llm_calls' = llm_calls + 1
    /\ IF llm_raised
       THEN /\ a_exc' = Exception(exc[1].cls, exc[1].text, "call_llm")
            /\ llm_text' = llm_text
            /\ apc' = "except"
       ELSE /\ llm_text' = llm_result
            /\ a_exc' = a_exc
            /\ apc' = "result"
    /\ UNCHANGED <<cur_agent, request, strategy, formatted, agent_result,
                   agent_raised, response, exc, generated_text,
                   cleaned_response, llm_result, llm_raised, timeouts,
                   attempts, rvars, ovars, lvars, evars, cvars>>

NextCall ==
    \/ CallProcessRequest
    \/ SelectStrategy
    \/ FormatContext
    \/ StrategyEntersLLM
    \/ PostReturns
    \/ \E cls \in {"ReadTimeout", "ConnectTimeout"} : PostTimesOut(cls)
    \/ PostFails
    \/ RaiseForStatus
    \/ ResponseJson
    \/ Extract
    \/ Clean
    \/ Except
    \/ StrategyLeavesLLM
    \/ ConstructResult
    \/ AgentExcept
    \/ AgentDone

SpecCall == Init /\ [][NextCall]_vars

(***************************************************************************)
(* route_request under fair scheduling: a call that has begun keeps        *)
(* running (the interpreter does not stop inside a call); a new call need  *)
(* not come.                                                               *)
(***************************************************************************)

RouteSteps ==
    \/ HandleMultiAgent
    \/ DispatchAgent
    \/ SelectStrategy
    \/ FormatContext
    \/ StrategyCallsLLM
    \/ ConstructResult
    \/ AgentExcept
    \/ RouteReturns
    \/ RouteDone

SpecRouteFair == SpecRoute /\ WF_vars(RouteSteps)

(***************************************************************************)
(* Properties of the classification.  They read the query through their    *)
(* own substring test (Mentions), written with SubSeq.                     *)
(***************************************************************************)

Classified == rpc = "classified"

\* keyword k occurs in the lower-cased text of q
Mentions(q, k) ==
    LET lq == Lower(q)
    IN  \E i \in 0..(Len(lq) - Len(k)) : SubSeq(lq, i + 1, i + Len(k)) = k

MentionsAny(q, keywords) ==
    \E n \in DOMAIN keywords : Mentions(q, keywords[n])

\* keyword k occurs in q next to a letter, i.e. inside a longer word
MentionsInsideWord(q, k) ==
    LET lq == Lower(q)
    IN  \E i \in 0..(Len(lq) - Len(k)) :
            /\ SubSeq(lq, i + 1, i + Len(k)) = k
            /\ \/ i >= 1 /\ IsLetter(lq[i])
               \/ i + Len(k) < Len(lq) /\ IsLetter(lq[i + Len(k) + 1])

AllThreeAgents ==
    {"network_analysis", "cost_optimization", "report_generation"}

\* C1: a query with a complexity keyword is classified multi_agent with
\* secondary agents exactly network_analysis, cost_optimization and
\* report_generation, whatever other keywords it contains.
C1_ComplexityKeywordWins ==
    (Classified /\ MentionsAny(user_query, complex_keywords)) =>
        /\ intent.primary_agent = "multi_agent"
        /\ Len(intent.secondary_agents) = Cardinality(AllThreeAgents)
        /\ { intent.secondary_agents[i] : i \in DOMAIN intent.secondary_agents }
             = AllThreeAgents

C1_Witness ==
    /\ Classified
    /\ MentionsAny(user_query, complex_keywords)
    /\ MentionsAny(user_query, cost_keywords)
    /\ intent.primary_agent = "multi_agent"

\* C2: a query with a cost keyword and no complexity keyword is classified
\* cost_optimization, also when report or analysis keywords are present.
C2_CostBeforeReportAndAnalysis ==
    (/\ Classified
     /\ MentionsAny(user_query, cost_keywords)
     /\ ~MentionsAny(user_query, complex_keywords)) =>
        intent.primary_agent = "cost_optimization"

C2_Witness ==
    /\ Classified
    /\ MentionsAny(user_query, cost_keywords)
    /\ MentionsAny(user_query, report_keywords)
    /\ ~MentionsAny(user_query, complex_keywords)
    /\ intent.primary_agent = "cost_optimization"

\* The agent of the first keyword set, in the order complexity, cost, report,
\* analysis, of which q mentions a keyword.
FirstMatch(q) ==
    IF MentionsAny(q, complex_keywords) THEN "multi_agent"
    ELSE IF MentionsAny(q, cost_keywords) THEN "cost_optimization"
    ELSE IF MentionsAny(q, report_keywords) THEN "report_generation"
    ELSE IF MentionsAny(q, analysis_keywords) THEN "network_analysis"
    ELSE "no match"

\* C3: the precedence is complexity > cost > report > analysis, first match
\* wins: report keywords beat analysis keywords, and a query with analysis
\* keywords only is classified network_analysis.
C3_PrecedenceFirstMatchWins ==
    (Classified /\ FirstMatch(user_query) # "no match") =>
        /\ intent.primary_agent = FirstMatch(user_query)
        /\ (/\ MentionsAny(user_query, report_keywords)
            /\ ~MentionsAny(user_query, complex_keywords)
            /\ ~MentionsAny(user_query, cost_keywords)) =>
               intent.primary_agent = "report_generation"
        /\ (/\ MentionsAny(user_query, analysis_keywords)
            /\ ~MentionsAny(user_query, complex_keywords)
            /\ ~MentionsAny(user_query, cost_keywords)
            /\ ~MentionsAny(user_query, report_keywords)) =>
               intent.primary_agent = "network_analysis"

C3_Witness ==
    /\ Classified
    /\ MentionsAny(user_query, report_keywords)
    /\ MentionsAny(user_query, analysis_keywords)
    /\ ~MentionsAny(user_query, complex_keywords)
    /\ ~MentionsAny(user_query, cost_keywords)
    /\ intent.primary_agent = "report_generation"

\* C4: a query with no keyword of any set, the empty query included, is
\* classified network_analysis, and the classification returns an intent.
C4_NoKeywordFallsBack ==
    (Classified /\ FirstMatch(user_query) = "no match") =>
        /\ intent.primary_agent = "network_analysis"
        /\ intent.secondary_agents = <<>>
        /\ intent.keywords_found = <<>>
        /\ intent.complexity = "simple"

C4_Witness ==
    /\ Classified
    /\ user_query = <<>>
    /\ intent.primary_agent = "network_analysis"

ForecastQuery == <<"f", "o", "r", "e", "c", "a", "s", "t", " ", "t", "h", "e", " ", "n", "e", "x", "t", " ", "q", "u", "a", "r", "t", "e", "r">>

\* C5 as stated: "forecast the next quarter" is classified cost_optimization.
C5_ForecastIsCost ==
    (Classified /\ user_query = ForecastQuery) =>
        intent.primary_agent = "cost_optimization"

SingleAgentSets ==
    << [agent |-> "cost_optimization", keywords |-> cost_keywords],
       [agent |-> "report_generation", keywords |-> report_keywords],
       [agent |-> "network_analysis", keywords |-> analysis_keywords] >>

\* C5 (amended): matching is substring containment.  A query that mentions
\* keywords of one set only, one of them inside a longer word, is classified
\* as that set's agent and lists the keyword as found; "forecast the next
\* quarter" contains no keyword ("cost" is not a substring of "forecast")
\* and is classified network_analysis.
C5_SubstringMatching ==
    Classified =>
        /\ \A n \in DOMAIN SingleAgentSets :
             \A m \in DOMAIN SingleAgentSets[n].keywords :
               LET k == SingleAgentSets[n].keywords[m]
               IN  (/\ MentionsInsideWord(user_query, k)
                    /\ FirstMatch(user_query) = SingleAgentSets[n].agent) =>
                       /\ intent.primary_agent = SingleAgentSets[n].agent
                       /\ \E f \in DOMAIN intent.keywords_found :
                              intent.keywords_found[f] = k
        /\ user_query = ForecastQuery =>
             /\ intent.primary_agent = "network_analysis"
             /\ intent.keywords_found = <<>>

C5_Witness ==
    /\ Classified
    /\ user_query = <<"c", "o", "s", "t", "s">>
    /\ MentionsInsideWord(user_query, <<"c", "o", "s", "t">>)
    /\ intent.primary_agent = "cost_optimization"

\* C6: two calls whose queries differ at most in letter case get the same
\* primary_agent and secondary_agents, whatever their context snapshots and
\* whatever was classified before.
C6_CaseInsensitiveDeterministic ==
    (Classified /\ earlier # <<>>) =>
        (Lower(earlier[1].user_query) = Lower(user_query) =>
            /\ intent.primary_agent = earlier[1].intent.primary_agent
            /\ intent.secondary_agents = earlier[1].intent.secondary_agents)

C6_Witness ==
    /\ Classified
    /\ earlier # <<>>
    /\ earlier[1].user_query # user_query
    /\ earlier[1].context # context
    /\ Lower(earlier[1].user_query) = Lower(user_query)
    /\ intent.primary_agent = "cost_optimization"

(***************************************************************************)
(* Properties of the gateway.                                              *)
(***************************************************************************)

\* call_llm returned through line 98: the text was extracted and cleaned
ReturnedCleaned == gpc = "done" /\ exc = <<>>

\* The lines of t, by the positions of its newlines.
LinesOf(t) ==
    LET newlines == { i \in 1..Len(t) : t[i] = "\n" }
        nth(k)   == CHOOSE i \in newlines :
                        Cardinality({ j \in newlines : j < i }) = k - 1
        from(k)  == IF k = 1 THEN 1 ELSE nth(k - 1) + 1
        to(k)    == IF k = Cardinality(newlines) + 1 THEN Len(t) ELSE nth(k) - 1
    IN  [ k \in 1..(Cardinality(newlines) + 1) |-> SubSeq(t, from(k), to(k)) ]

\* The lines one after another, a newline between two of them.
RECURSIVE Glue(_)
Glue(lines) ==
    IF Len(lines) = 0 THEN <<>>
    ELSE IF Len(lines) = 1 THEN lines[1]
    ELSE Glue(SubSeq(lines, 1, Len(lines) - 1)) \o <<"\n">> \o lines[Len(lines)]

\* u is s without its leading and trailing whitespace.
IsTrimOf(u, s) ==
    /\ u # <<>> => u[1] \notin Whitespace /\ u[Len(u)] \notin Whitespace
    /\ \E a \in 0..(Len(s) - Len(u)) :
          /\ \A i \in 1..a : s[i] \in Whitespace
          /\ \A i \in (a + Len(u) + 1)..Len(s) : s[i] \in Whitespace
          /\ SubSeq(s, a + 1, a + Len(u)) = u

SpecExampleText == <<"H", "u", "m", "a", "n", ":", " ", "i", "g", "n", "o", "r", "e", "\n", "R", "e", "a", "l", " ", "a", "n", "s", "w", "e", "r", " ", "l", "i", "n", "e">>

\* C7: the cleaning step drops every line that holds a role marker in any
\* letter case, keeps the other lines in their order and trims the result;
\* "Human: ignore" followed by "Real answer line" gives "Real answer line".
C7_RoleMarkerLinesRemoved ==
    ReturnedCleaned =>
        /\ ~MentionsAny(llm_result, skip_phrases)
        /\ Len(cleaned_response) <= MaxResponseLength =>
             IsTrimOf(llm_result,
                      Glue(SelectSeq(LinesOf(generated_text.text),
                                     LAMBDA line : ~MentionsAny(line, skip_phrases))))
        /\ generated_text.text = SpecExampleText =>
             llm_result = <<"R", "e", "a", "l", " ", "a", "n", "s", "w", "e", "r", " ", "l", "i", "n", "e">>

C7_Witness ==
    /\ ReturnedCleaned
    /\ generated_text.text = SpecExampleText
    /\ llm_result = <<"R", "e", "a", "l", " ", "a", "n", "s", "w", "e", "r", " ", "l", "i", "n", "e">>

\* C8: a cleaned text longer than 2000 characters is returned as its first
\* 2000 characters followed by "..."; a cleaned text of 2000 characters or
\* fewer is returned as it is.
C8_TruncatedAt2000 ==
    ReturnedCleaned =>
        IF Len(cleaned_response) > 2000
        THEN /\ Len(llm_result) = 2003
             /\ \A i \in 1..2000 : llm_result[i] = cleaned_response[i]
             /\ \A i \in 2001..2003 : llm_result[i] = "."
        ELSE llm_result = cleaned_response

C8_Witness ==
    /\ ReturnedCleaned
    /\ Len(generated_text.text) = 2500
    /\ Len(llm_result) = 2003

TimedOut ==
    exc # <<>> /\ exc[1].cls \in {"ReadTimeout", "ConnectTimeout"}

\* C9: when the transport call times out, call_llm returns "Request timed
\* out. Please try again." and raises nothing, in every one of any number of
\* consecutive calls.
C9_TimeoutReturnsSentinel ==
    (gpc = "done" /\ TimedOut) =>
        /\ llm_result = <<"R", "e", "q", "u", "e", "s", "t", " ", "t", "i", "m", "e", "d", " ", "o", "u", "t", ".", " ", "P", "l", "e", "a", "s", "e", " ", "t", "r", "y", " ", "a", "g", "a", "i", "n", ".">>
        /\ ~llm_raised

C9_Witness ==
    /\ gpc = "done"
    /\ TimedOut
    /\ timeouts >= 2
    /\ llm_result = <<"R", "e", "q", "u", "e", "s", "t", " ", "t", "i", "m", "e", "d", " ", "o", "u", "t", ".", " ", "P", "l", "e", "a", "s", "e", " ", "t", "r", "y", " ", "a", "g", "a", "i", "n", ".">>

\* C10: whatever the transport call does (success, timeout, connection or
\* HTTP error, a body that is no JSON, a JSON body of another shape),
\* call_llm returns a string and no exception leaves it.
C10_NeverRaises ==
    gpc = "done" =>
        /\ ~llm_raised
        /\ llm_result \in Seq(STRING)

C10_Witness ==
    /\ gpc = "done"
    /\ exc # <<>>
    /\ exc[1].cls = "IndexError"
    /\ response.shape = "empty_predictions"
    /\ ~llm_raised

\* C11: when the JSON body lacks the expected field (no "predictions" key,
\* an empty predictions list, a first prediction without "generated_text"),
\* call_llm returns the generic sentinel text.
C11_MissingFieldGivesSentinel ==
    (/\ gpc = "done"
     /\ response.shape \in
          {"no_predictions", "empty_predictions", "no_generated_text"}) =>
        llm_result = <<"A", "n", " ", "u", "n", "e", "x", "p", "e", "c", "t", "e", "d", " ", "e", "r", "r", "o", "r", " ", "o", "c", "c", "u", "r", "r", "e", "d", ".", " ", "P", "l", "e", "a", "s", "e", " ", "t", "r", "y", " ", "a", "g", "a", "i", "n", ".">>

(***************************************************************************)
(* Properties of the agents' process_request.                              *)
(***************************************************************************)

AgentReturned == apc = "returned" /\ agent_result # NoResult

\* C12: every result process_request returns satisfies: success = false
\* implies a non-empty error string, and success = true implies that the
\* content field of the agent (analysis / strategies / report_content) is
\* a non-empty string, whatever text the gateway returned.
C12_ResultInvariant ==
    AgentReturned =>
        LET result == agent_result[1]
        IN  /\ ~result.success =>
                 (result.error # <<>> /\ Len(result.error[1]) > 0)
            /\ result.success =>
                 /\ result.key = ContentKey[cur_agent]
                 /\ result.content # <<>>
                 /\ Len(result.content[1]) > 0

\* A request whose strategy reached call_llm, got an empty text back, and
\* whose process_request still returned a failure with its message.
C12_Witness ==
    /\ AgentReturned
    /\ llm_calls = 1
    /\ llm_text = <<>>
    /\ ~agent_result[1].success
    /\ Len(agent_result[1].error[1]) > 0

\* C13: an exception raised by any step of a strategy is converted by
\* process_request into a result with success = false and a non-empty
\* error; no exception leaves process_request.  This holds for all three
\* agents.
C13_ExceptionBecomesFailure ==
    /\ ~agent_raised
    /\ (apc = "returned" /\ a_exc # NoException) =>
          /\ agent_result # NoResult
          /\ ~agent_result[1].success
          /\ agent_result[1].error # <<>>
          /\ Len(agent_result[1].error[1]) > 0

\* The cost optimizer's formatting raised on a snapshot whose numbers are
\* text, and process_request returned the failure.
C13_Witness ==
    /\ apc = "returned"
    /\ cur_agent = "cost_optimizer"
    /\ a_exc # NoException
    /\ a_exc[1].cls = "ValueError"
    /\ a_exc[1].step = "format"
    /\ ~agent_raised
    /\ ~agent_result[1].success

\* C14: when the strategy formatted its context and built its prompt
\* without raising and the gateway returned a text, process_request returns
\* success = true with that text as content, also when the text is one of
\* the gateway's sentinels.
C14_GatewayTextGivesSuccess ==
    (apc = "returned" /\ llm_calls = 1) =>
        /\ agent_result # NoResult
        /\ agent_result[1].success
        /\ agent_result[1].content = << llm_text >>

(***************************************************************************)
(* Properties of route_request past the classification and of the          *)
(* conversation log.                                                       *)
(***************************************************************************)

\* C15: every completed route_request call has appended exactly one entry
\* to the conversation log.
C15_RouteAppendsOneEntry ==
    rpc = "returned" =>
        Len(conversation_history) = Len(log_at_entry) + 1

\* C16: after n sequential add_to_conversation calls the log holds the
\* min(n, 50) most recent entries, in the order of the calls.
C16_LogHoldsMostRecent ==
    lpc = "idle" =>
        [ i \in DOMAIN conversation_history |->
            conversation_history[i].user_query ]
          = LastN(submitted, MaxHistory)

RouteEnded == rpc \in {"returned", "raised"}

MultiAgentEnded == RouteEnded /\ intent.primary_agent = "multi_agent"

Callees == [ i \in DOMAIN invoked |-> invoked[i].callee ]

\* C17: on the multi-agent path the prompt of the integration call contains
\* the content string of each of the three agents' results.
C17_IntegrationPromptHasAllContents ==
    MultiAgentEnded =>
        /\ route_result # NoResult
        /\ \E i \in DOMAIN invoked :
              /\ invoked[i].callee = "call_llm"
              /\ \A a \in Agents :
                    Contains(invoked[i].arg,
                             route_result[1].agent_responses[a].content[1])

\* C18: on the multi-agent path the three agents are invoked exactly once
\* each, in the order network analyzer, cost optimizer, report generator;
\* the integration call comes after all three; the results are stored per
\* agent and the integration output is the integrated response.
C18_MultiAgentSequence ==
    MultiAgentEnded =>
        /\ Callees = << "network_analyzer", "cost_optimizer",
                        "report_generator", "call_llm" >>
        /\ route_result # NoResult
        /\ DOMAIN route_result[1].agent_responses = Agents
        /\ route_result[1].integrated_response = llm_text

\* C19: route_request never raises: every query and context snapshot gets a
\* result dict.
C19_RouteNeverRaises ==
    RouteEnded => (route_raised = NoException /\ route_result # NoResult)

\* the cue occurs in the lower-cased query
HasCue(cues) == \E n \in DOMAIN cues : Mentions(user_query, cues[n])

\* C20: the request built for a single agent carries the type the query's
\* cues select: cost_reduction iff "save" or "reduce" occurs (else general)
\* for the cost optimizer; provider_performance iff "dr.", "provider" or
\* "doctor" occurs (else network_summary) for the network analyzer;
\* executive_summary iff "executive" or "summary" occurs (else
\* provider_diagnostics) for the report generator.
C20_RequestTypeFromCues ==
    rpc = "dispatched" =>
        /\ cur_agent = "cost_optimizer" =>
             request.optimization_type =
               IF HasCue(<< <<"s", "a", "v", "e">>, <<"r", "e", "d", "u", "c", "e">> >>)
               THEN << "cost_reduction" >> ELSE << "general" >>
        /\ cur_agent = "network_analyzer" =>
             request.analysis_type =
               IF HasCue(<< <<"d", "r", ".">>, <<"p", "r", "o", "v", "i", "d", "e", "r">>, <<"d", "o", "c", "t", "o", "r">> >>)
               THEN << "provider_performance" >>
               ELSE << "network_summary" >>
        /\ cur_agent = "report_generator" =>
             request.report_type =
               IF HasCue(<< <<"e", "x", "e", "c", "u", "t", "i", "v", "e">>, <<"s", "u", "m", "m", "a", "r", "y">> >>)
               THEN << "executive_summary" >>
               ELSE << "provider_diagnostics" >>

\* A query that names a provider in capitals was sent to the network
\* analyzer as a provider_performance request.
C20_Witness ==
    /\ rpc = "dispatched"
    /\ cur_agent = "network_analyzer"
    /\ user_query = <<"a", "n", "a", "l", "y", "z", "e", "P", "r", "o", "v", "i", "d", "e", "r">>
    /\ request.analysis_type = << "provider_performance" >>

(***************************************************************************)
(* Properties of the single-agent path.                                    *)
(***************************************************************************)

SingleAgentReturned ==
    rpc = "returned" /\ intent.primary_agent # "multi_agent"

\* C21: for a single-agent intent route_request invokes exactly one agent,
\* the one the classified primary_agent maps to, exactly once, invokes no
\* other agent and makes no integration call, and returns that agent's
\* result unchanged.
C21_SingleAgentInvokedOnce ==
    SingleAgentReturned =>
        /\ Len(invoked) = 1
        /\ invoked[1].callee =
             (IF intent.primary_agent = "cost_optimization"
              THEN "cost_optimizer"
              ELSE IF intent.primary_agent = "report_generation"
              THEN "report_generator"
              ELSE "network_analyzer")
        /\ invoked[1].callee = cur_agent
        /\ route_result = agent_result
        /\ route_result # NoResult

\* A report query was answered by the report generator alone.
C21_Witness ==
    /\ SingleAgentReturned
    /\ intent.primary_agent = "report_generation"
    /\ Callees = << "report_generator" >>
    /\ route_result = agent_result
    /\ route_result # NoResult

\* C22: the classified primary_agent is always one of network_analysis,
\* cost_optimization, report_generation and multi_agent, and no call of
\* route_request hands the general request of _handle_general_query (the
\* one request without an "intent" item) to an agent.
C22_IntentAlwaysRecognized ==
    /\ rpc # "idle" =>
         intent.primary_agent \in
           { "network_analysis", "cost_optimization", "report_generation",
             "multi_agent" }
    /\ \A i \in DOMAIN invoked :
         /\ invoked[i].arg.intent # <<>>
         /\ invoked[i].arg.analysis_type # << "general" >>

\* A query without any keyword was dispatched through the default intent,
\* with a request built by _build_agent_request.
C22_Witness ==
    /\ rpc = "dispatched"
    /\ intent.keywords_found = <<>>
    /\ intent.primary_agent = "network_analysis"
    /\ user_query = <<"s">>
    /\ Len(invoked) = 1
    /\ invoked[1].arg.intent = << intent >>

(***************************************************************************)
(* Properties of the endpoint selection.                                   *)
(***************************************************************************)

\* the preferred names that some listed endpoint matches, by rank
MatchedRanks ==
    { m \in DOMAIN preferred_models :
        \E i \in DOMAIN endpoints : Mentions(endpoints[i], preferred_models[m]) }

\* C23: with an explicit model identifier nothing is probed and the
\* identifier is kept.  Without one: if listing fails or lists nothing the
\* endpoint is the hard-coded default; if no listed endpoint matches a
\* preferred name it is the first listed endpoint; otherwise it is the first
\* listed endpoint matching the highest-ranked preferred name that any
\* listed endpoint matches (case-insensitive substring match).
C23_EndpointSelection ==
    epc = "done" =>
        IF model_arg # <<>> /\ model_arg[1] # <<>>
        THEN probes = 0 /\ model_endpoint = model_arg
        ELSE IF list_failed \/ endpoints = <<>>
        THEN model_endpoint = << DefaultEndpoint >>
        ELSE IF MatchedRanks = {}
        THEN model_endpoint = << endpoints[1] >>
        ELSE LET best == CHOOSE m \in MatchedRanks :
                           \A k \in MatchedRanks : m <= k
                 matching == { i \in DOMAIN endpoints :
                                 Mentions(endpoints[i], preferred_models[best]) }
                 first == CHOOSE i \in matching : \A k \in matching : i <= k
             IN  model_endpoint = << endpoints[first] >>

\* The second-ranked model is listed first, in capitals, and the
\* first-ranked model after it: the first-ranked one is chosen.
C23_Witness ==
    /\ epc = "done"
    /\ model_arg = <<>>
    /\ endpoints = << <<"D", "a", "t", "a", "b", "r", "i", "c", "k", "s", "-", "M", "P", "T", "-", "3", "0", "B", "-", "I", "n", "s", "t", "r", "u", "c", "t">>,
                      <<"d", "a", "t", "a", "b", "r", "i", "c", "k", "s", "-", "l", "l", "a", "m", "a", "-", "2", "-", "7", "0", "b", "-", "c", "h", "a", "t">> >>
    /\ model_endpoint = << <<"d", "a", "t", "a", "b", "r", "i", "c", "k", "s", "-", "l", "l", "a", "m", "a", "-", "2", "-", "7", "0", "b", "-", "c", "h", "a", "t">> >>

(***************************************************************************)
(* Properties of the transport attempts.                                   *)
(***************************************************************************)

C25_RouteEventuallyReturns ==
    (rpc = "classified") ~> (rpc = "returned")

AllCallersFinished ==
    \A c \in Callers : cpc[c] \in {"returned", "raised"}

\* C26: when several callers have run add_to_conversation concurrently and
\* all have finished, the log holds at most 50 entries and no entry is
\* lost: with fewer than 50 callers nothing is evicted, so every caller's
\* entry is in the log.
C26_ConcurrentAppendsKept ==
    AllCallersFinished =>
        /\ Len(conversation_history) <= MaxHistory
        /\ \A c \in Callers :
              \E i \in DOMAIN conversation_history :
                  conversation_history[i].user_query = cargs[c][1]

\* C27: every request the router builds selects a strategy its agent
\* implements: with a well-formed context snapshot, process_request reaches
\* the gateway call and returns success = true.
C27_RoutedTypesImplemented ==
    (rpc = "dispatched" /\ context \in Contexts) =>
        /\ strategy \in Methods[cur_agent]
        /\ apc = "returned" =>
              /\ llm_calls = 1
              /\ agent_result # NoResult
              /\ agent_result[1].success

\* C28: the context snapshot passed to route_request is the data the
\* selected agent formats its prompt context from.
C28_AgentReadsRoutedSnapshot ==
    (rpc = "dispatched" /\ context \in Contexts /\ formatted # <<>>) =>
        formatted = << context >>

(***************************************************************************)
(* Length and idempotence of what the gateway returns.                     *)
(***************************************************************************)

\* C29: every string call_llm returns, on the success path and on every
\* failure path, is at most 2003 characters long.
C29_ResultAtMost2003 ==
    (gpc = "done" /\ ~llm_raised) =>
        Len(llm_result) <= MaxResponseLength + Len(Ellipsis)

\* C30: cleaning is idempotent: _clean_llm_response applied to the text
\* call_llm returned on its success path gives that text again.
C30_CleaningIdempotent ==
    (gpc = "done" /\ exc = <<>>) =>
        _clean_llm_response(llm_result) = llm_result

\* A generated text of 4000 characters was cut at 2000 characters, and
\* cleaning the returned text changes nothing.
C30_Witness ==
    /\ gpc = "done"
    /\ exc = <<>>
    /\ response.text = FullBlock \o FullBlock
    /\ llm_result = FullBlock \o Ellipsis
    /\ _clean_llm_response(llm_result) = llm_result

====
